---- MODULE Spec2Model ----
(***************************************************************************)
(* Market-maker strategy (src/src/strategy/market_making.ts) and its depth *)
(* chart (src/unnamed/part_000).                                           *)
(*                                                                         *)
(* Numbers.  The program computes with bignumber.js decimals.  Prices and  *)
(* order balances of the modelled books are whole numbers, sums and        *)
(* products are exact, and a quotient is kept as numerator/denominator     *)
(* and compared by cross-multiplication.  bignumber.js rounds a quotient   *)
(* half-up at 20 decimal places; that rounding is monotone and leaves the  *)
(* whole and half numbers it is compared with unchanged, so the            *)
(* comparisons below are the program's.  Token amounts are counted in      *)
(* base units (10^-TokenDecimals token), emitted prices in 10^-6.          *)
(***************************************************************************)
EXTENDS Integers, Sequences, FiniteSets

\* ---------------------------------------------------------------- bounds
MaxOrders == 2
MaxBalance == 2
DecimalPlaces == 2

\* ------------------------------------------------------ program constants
PRICEDECIMALS == 6
healthyCutoff == 2
TokenDecimals == 1

\* A price grid in which the configured spread (1) is half a price step.
Prices == {2, 4, 6}
Balances == 1..MaxBalance
TokenBalances == {0, 5, 30}
EtherBalances == {1, 4}

\* tokenLimit is counted in base units like the token balance (1.5 tokens)
Configs ==
  { [spread |-> 1, dustCutoff |-> 2, bandSize |-> 1, tokenLimit |-> 15, fundMinimum |-> 1] }

\* ---------------------------------------------------------------- helpers
RECURSIVE Pow(_, _)
Pow(n, p) == IF p = 0 THEN 1 ELSE n * Pow(n, p - 1)

Min2(a, b) == IF a <= b THEN a ELSE b
Max2(a, b) == IF a >= b THEN a ELSE b

\* a / b rounded half-up to a whole number (a >= 0, b > 0): toFixed's rounding
RoundHalfUp(a, b) == (2 * a + b) \div (2 * b)

RECURSIVE SumSeq(_)
SumSeq(s) == IF s = <<>> THEN 0 ELSE Head(s) + SumSeq(Tail(s))

MapSeq(s, Op(_)) == [i \in 1..Len(s) |-> Op(s[i])]

etherBalance(order) == order.balance * order.price

\* ------------------------------------------------------------------ state
VARIABLES
  obBuys,        \* the exchange's order book, buy side (any order)
  obSells,       \* the exchange's order book, sell side
  tokenBalance,  \* the bot's ERC20 balance, in base units
  ethBalance,    \* the bot's ether balance, in ether
  config,        \* MarketMakerConfig
  ob,            \* the book object the health guard's query returned
  pc,            \* position of the getActions cycle
  result,        \* the action list getActions returned
  evaluated,     \* the checkpoints the cycle has evaluated, in order
  log,           \* console.log calls of the cycle, as tags
  bookBuys,      \* the book object handed to the chart printer: its buys array
  bookSells,     \* ... and its sells array
  printed        \* the charts printed from that object, in order

engine == <<obBuys, obSells, tokenBalance, ethBalance, config, ob, pc, result, evaluated, log>>
printer == <<bookBuys, bookSells, printed>>
vars == <<engine, printer>>

RawOrders == [price : Prices, balance : Balances, mine : BOOLEAN]

Tag(side, f) ==
  [i \in 1..Len(f) |->
     [price |-> f[i].price, balance |-> f[i].balance, mine |-> f[i].mine,
      contract |-> "exchange", transaction |-> <<side, i>>]]

Sides == UNION { [1..n -> RawOrders] : n \in 1..MaxOrders }

Init ==
  /\ \E f \in Sides : obBuys = Tag("buy", f)
  /\ \E f \in Sides : obSells = Tag("sell", f)
  /\ tokenBalance \in TokenBalances
  /\ ethBalance \in EtherBalances
  /\ config \in Configs
  /\ ob = [buys |-> <<>>, sells |-> <<>>]
  /\ pc = "ensureValidOrderBook"
  /\ result = <<>>
  /\ evaluated = <<>>
  /\ log = <<>>
  /\ bookBuys = <<>>
  /\ bookSells = <<>>
  /\ printed = <<>>

\* ------------------------------------------------- market snapshot access
\* getTokenInfo(...).best_buy_order_tx: the exchange's highest-priced buy,
\* the first such order of the book when several share the price.
BestIndex(orders, Better(_, _)) ==
  CHOOSE i \in 1..Len(orders) :
    /\ \A j \in 1..Len(orders) : ~Better(orders[j].price, orders[i].price)
    /\ \A j \in 1..(i - 1) : orders[j].price # orders[i].price

Higher(a, b) == a > b
Lower(a, b) == a < b

bestBuyOrder(buys) == buys[BestIndex(buys, Higher)]
bestSellOrder(sells) == sells[BestIndex(sells, Lower)]

bestBuyPrice(buys) == bestBuyOrder(buys).price
bestSellPrice(sells) == bestSellOrder(sells).price

spread(buys, sells) == bestSellPrice(sells) - bestBuyPrice(buys)

sellDepth(sells) == SumSeq(MapSeq(sells, etherBalance))
buyDepth(buys) == SumSeq(MapSeq(buys, etherBalance))

\* weightedMidMarketPrice = WmNum / WmDen
WmNum(buys, sells) ==
  bestSellPrice(sells) * buyDepth(buys) + bestBuyPrice(buys) * sellDepth(sells)
WmDen(buys, sells) == sellDepth(sells) + buyDepth(buys)

\* ----------------------------------------------------------------- wallet
availableEther == Max2(0, ethBalance - config.fundMinimum)

\* (variant: the balance is not capped at tokenLimit)
availableTokens_uncapped == tokenBalance

\* min(tokenbalance / 10^decimals, tokenLimit), in base units
availableTokens == Min2(tokenBalance, config.tokenLimit)

IsMine(o) == o.mine
fetchOrdersFor == [buys |-> SelectSeq(obBuys, IsMine), sells |-> SelectSeq(obSells, IsMine)]

NotionalOf(o) == o.balance * o.price
BalanceOf(o) == o.balance
etherLockedForAddress == SumSeq(MapSeq(fetchOrdersFor.buys, NotionalOf))
tokensLockedForAddress == SumSeq(MapSeq(fetchOrdersFor.sells, BalanceOf))

\* ------------------------------------------------------- the depth chart
\* Chart balances and depths are counted in units of 10^-DecimalPlaces, the
\* places at which a quotient is rounded (half-up).  The program rounds at
\* 20 places; a quotient by 1 or 2 is exact at either, and a quotient by 7
\* repeats with period 6, so that it is rounded the same way at 2 places
\* as at 20.
Unit == Pow(10, DecimalPlaces)

\* the order objects of a fetched book, as the chart reads them
ChartOrder(o) == [price |-> o.price, balance |-> o.balance * Unit]

Depth(orders) == SumSeq(MapSeq(orders, etherBalance))

\* Array.prototype.sort by ascending price; equal prices keep their order
RECURSIVE InsertByPrice(_, _)
InsertByPrice(o, sorted) ==
  IF sorted = <<>> \/ o.price < Head(sorted).price
    THEN <<o>> \o sorted
    ELSE <<Head(sorted)>> \o InsertByPrice(o, Tail(sorted))

RECURSIVE SortByPrice(_)
SortByPrice(orders) ==
  IF orders = <<>> THEN <<>>
  ELSE InsertByPrice(orders[Len(orders)], SortByPrice(SubSeq(orders, 1, Len(orders) - 1)))

\* upperLimit.dividedBy(price).toFixed()
ZoomBalance(upperLimit, price) == RoundHalfUp(upperLimit, price)

\* the loop of filterSellOrders from index i (1-based) on:
\* [orders: the caller's array, result, truncated]
RECURSIVE FilterLoop(_, _, _, _, _)
FilterLoop(orders, i, currentLimit, kept, upperLimit) ==
  IF i > Len(orders)
    THEN [orders |-> orders, result |-> kept, truncated |-> FALSE]
    ELSE LET limit == currentLimit + etherBalance(orders[i])
         IN  IF limit <= upperLimit
               THEN FilterLoop(orders, i + 1, limit, Append(kept, orders[i]), upperLimit)
               ELSE LET zoomed == [orders[i] EXCEPT
                                     !.balance = ZoomBalance(upperLimit, orders[i].price)]
                    IN  [orders |-> [orders EXCEPT ![i] = zoomed],
                         result |-> Append(kept, zoomed),
                         truncated |-> TRUE]

\* upperLimit = buyDepth * 1.5
UpperLimit(depth) == (3 * depth) \div 2

filterSellOrders(orders, depth) ==
  FilterLoop(orders, 3, 0, <<orders[1], orders[2]>>, UpperLimit(depth))

\* new OrderBookChart(buys, sells), for arrays of at least 2 orders.
\* argBuys, argSells are the caller's arrays as the constructor leaves them.
OrderBookChart(buys, sells) ==
  LET sorted == SortByPrice(sells)
      depth == Depth(sells)
      filtered == filterSellOrders(buys, depth)
      plotted == SortByPrice(filtered.result)
  IN  [buys |-> sorted, buyDepth |-> depth,
       sells |-> plotted, sellDepth |-> Depth(plotted),
       truncated |-> filtered.truncated,
       argBuys |-> filtered.orders, argSells |-> sorted]

buyDepthAtIndex(chart, idx) == chart.buyDepth - Depth(SubSeq(chart.buys, 1, idx + 1))
sellDepthAtIndex(chart, idx) == Depth(SubSeq(chart.sells, 1, idx + 1))

offset == 3
height == 8

\* Math.round(depth.times(ratio).toNumber()) with ratio = height / range.
\* The quotient height * depth / range of two modelled depths is a half
\* exactly or farther from it than ratio's rounding and toNumber() can
\* move it, so the row is that quotient rounded half-up.
Scaled(depth, range) == RoundHalfUp(height * depth, range)

Cell(g, v) == [g |-> g, v |-> v]
Blank == Cell(" ", 0)
Hole == Cell("", 0)
Write(r, c, cell) == [r |-> r, c |-> c, cell |-> cell]

RECURSIVE Flatten(_)
Flatten(ss) == IF ss = <<>> THEN <<>> ELSE Head(ss) \o Flatten(Tail(ss))

\* F(a) \o F(a + 1) \o ... \o F(b)
FlatMap(a, b, F(_)) ==
  IF a > b THEN <<>> ELSE Flatten([i \in 1..(b - a + 1) |-> F(a + i - 1)])

\* one column of a step curve between scaled depths y0 and y1
Step(rows, col, y0, y1, colour) ==
  IF y0 = y1
    THEN <<Write(rows - y0, col, Cell("flat", colour))>>
    ELSE LET from == Min2(y0, y1)
             to == Max2(y0, y1)
             Bar(y) == <<Write(rows - y, col, Cell("vert", colour))>>
         IN  << Write(rows - y1, col, Cell(IF y0 > y1 THEN "ll" ELSE "ul", colour)),
                Write(rows - y0, col, Cell(IF y0 > y1 THEN "ur" ELSE "lr", colour)) >>
               \o FlatMap(from + 1, to - 1, Bar)

Green == "green"
Red == "red"

\* plot(): the cells written, in the order written
Plot(chart) ==
  LET max == Max2(chart.buyDepth, chart.sellDepth)
      min2 == Scaled(0, max)
      max2 == Scaled(max, max)
      rows == IF max2 >= min2 THEN max2 - min2 ELSE min2 - max2
      nb == Len(chart.buys)
      width == nb + Len(chart.sells) + offset
      \* format(max - (y - min2) * range / rows), in hundredths
      Label(y) == RoundHalfUp(max * (rows - (y - min2)) * 100, rows * Unit)
      Axis(y) == << Write(y - min2, Max2(offset - 11, 0), Cell("label", Label(y))),
                    Write(y - min2, offset - 1, Cell("tee", 0)) >>
      buyY == [x \in 0..(nb - 1) |-> Scaled(buyDepthAtIndex(chart, x), max) - min2]
      sellY == [x \in 0..(Len(chart.sells) - 1) |->
                  Scaled(sellDepthAtIndex(chart, x), max) - min2]
      BuyY(x) == buyY[x]
      SellY(x) == sellY[x]
      BuyStep(x) == Step(rows, x + offset, BuyY(x), BuyY(x + 1), Green)
      SellStep(x) == Step(rows, x + offset + nb - 1, SellY(x), SellY(x + 1), Red)
      SellBar(y) == <<Write(rows - y, nb + offset - 1, Cell("vert", Red))>>
      firstSell ==
        IF SellY(1) # SellY(0)
          THEN << Write(rows, nb + offset - 1, Cell("lr", Red)),
                  Write(rows - SellY(1), nb + offset - 1, Cell("ul", Red)) >>
                 \o FlatMap(1, SellY(1) - 1, SellBar)
          ELSE << Write(rows, nb + offset - 1, Cell("flat", Red)) >>
  IN  [rows |-> rows, width |-> width,
       writes |->
         FlatMap(min2, max2, Axis)
           \o << Write(rows - BuyY(0), offset - 1, Cell("cross", Green)) >>
           \o FlatMap(0, nb - 2, BuyStep)
           \o firstSell
           \o FlatMap(1, Len(chart.sells) - 2, SellStep)
           \o (IF chart.truncated THEN << Write(0, width, Cell("up", Red)) >> ELSE <<>>)]

\* result[r][c] = cell fails when result[r] is no row of the canvas
Throws(plot) == \E i \in 1..Len(plot.writes) : plot.writes[i].r \notin 0..plot.rows

\* the canvas after the writes: row r (0-based) as the array of its cells;
\* a write past the end of a row lengthens the row, the cells skipped
\* staying empty; the last write to a cell stands
CanvasRow(plot, r) ==
  LET mine == {i \in 1..Len(plot.writes) : plot.writes[i].r = r /\ plot.writes[i].c >= 0}
      len == IF \E i \in mine : plot.writes[i].c >= plot.width
               THEN 1 + CHOOSE c \in {plot.writes[i].c : i \in mine} :
                          \A i \in mine : plot.writes[i].c <= c
               ELSE plot.width
      At(c) == LET at == {i \in mine : plot.writes[i].c = c}
               IN  IF at = {} THEN (IF c < plot.width THEN Blank ELSE Hole)
                   ELSE plot.writes[CHOOSE i \in at : \A j \in at : j <= i].cell
  IN  [c \in 1..len |-> At(c - 1)]

Canvas(plot) == [r \in 1..(plot.rows + 1) |-> CanvasRow(plot, r - 1)]

\* result.map(x => x.join('')).join('\n'): the lines, each the sequence of
\* its non-empty cells; no text when plot() throws
IsInk(cell) == cell.g # ""
Text(plot) ==
  IF Throws(plot) THEN <<>>
  ELSE LET canvas == Canvas(plot)
       IN  [r \in 1..(plot.rows + 1) |-> SelectSeq(canvas[r], IsInk)]

\* what print() writes to the console for a chart
Output(chart) == Text(Plot(chart))

\* OrderBookPrinter.print() on a book object whose arrays are buys, sells:
\* the arrays afterwards, and the chart printed (its text is Output(chart))
print(buys, sells) ==
  LET chart == OrderBookChart(buys, sells)
  IN  [buys |-> chart.argBuys, sells |-> chart.argSells,
       chart |-> [buys |-> chart.buys, buyDepth |-> chart.buyDepth,
                  sells |-> chart.sells, sellDepth |-> chart.sellDepth,
                  truncated |-> chart.truncated]]

\* ------------------------------------------------------------- the cycle
\* (variant: the comparison with healthyCutoff is off by one)
ensureValidOrderBook_offByOne ==
  /\ pc = "ensureValidOrderBook"
  /\ pc' = IF Len(obBuys) <= healthyCutoff \/ Len(obSells) <= healthyCutoff
             THEN "thrown" ELSE "printMarketHealth"
  /\ ob' = [buys |-> obBuys, sells |-> obSells]
  /\ UNCHANGED <<obBuys, obSells, tokenBalance, ethBalance, config, result, evaluated, log>>
  /\ UNCHANGED printer

ensureValidOrderBook ==
  /\ pc = "ensureValidOrderBook"
  /\ pc' = IF Len(obBuys) < healthyCutoff \/ Len(obSells) < healthyCutoff
             THEN "thrown" ELSE "printMarketHealth"
  /\ ob' = [buys |-> obBuys, sells |-> obSells]
  /\ UNCHANGED <<obBuys, obSells, tokenBalance, ethBalance, config, result, evaluated, log>>
  /\ UNCHANGED printer

\* new OrderBookChart(buys, sells) throws a TypeError when its buys array
\* has fewer than 2 orders: filterSellOrders pushes orders[1], undefined,
\* and the depth sum reads its balance.  A short sells array does not throw.
ChartThrows(buys) == Len(buys) < 2

\* plotOrderBook: a freshly fetched book object goes to the printer; when
\* the constructor throws, the sells array has been sorted and nothing is
\* plotted
plotOrderBook ==
  LET buys == MapSeq(obBuys, ChartOrder)
      sells == MapSeq(obSells, ChartOrder)
  IN  IF ChartThrows(buys)
        THEN /\ bookBuys' = buys
             /\ bookSells' = SortByPrice(sells)
             /\ printed' = printed
        ELSE LET p == print(buys, sells)
             IN  /\ bookBuys' = p.buys
                 /\ bookSells' = p.sells
                 /\ printed' = Append(printed, p.chart)

\* printMarketHealth: six console lines, then plotOrderBook; a TypeError of
\* the chart ends the cycle
printMarketHealth ==
  /\ pc = "printMarketHealth"
  /\ log' = log \o <<"marketHealth", "chart">>
  /\ plotOrderBook
  /\ pc' = IF ChartThrows(obBuys) THEN "typeError" ELSE "checkArbOpportunity"
  /\ UNCHANGED <<obBuys, obSells, tokenBalance, ethBalance, config, ob, result, evaluated>>

\* (variant: the check for an empty wallet is missing)
ArbActions_noFundsCheck(buys, sells, available) ==
  LET bbo == bestBuyOrder(buys)
      bso == bestSellOrder(sells)
      tokenAmount == Min2(Min2(bbo.balance * Pow(10, TokenDecimals),
                               bso.balance * Pow(10, TokenDecimals)), available)
  IN  IF spread(buys, sells) <= 0
        THEN [actions |->
                << [type |-> "Trade", contract |-> bbo.contract,
                    order_tx |-> bbo.transaction, amount |-> tokenAmount],
                   [type |-> "Trade", contract |-> bso.contract,
                    order_tx |-> bso.transaction, amount |-> tokenAmount] >>,
              log |-> <<"arbDetected", "arbAttempt">>]
        ELSE [actions |-> <<>>, log |-> <<>>]

\* The arbitrage checkpoint: [actions, log]
ArbActions(buys, sells, available) ==
  LET bbo == bestBuyOrder(buys)
      bso == bestSellOrder(sells)
      tokenAmount == Min2(Min2(bbo.balance * Pow(10, TokenDecimals),
                               bso.balance * Pow(10, TokenDecimals)), available)
  IN  IF spread(buys, sells) <= 0
        THEN IF available = 0
               THEN [actions |-> <<>>, log |-> <<"arbDetected", "arbLowFunds">>]
               ELSE [actions |->
                       << [type |-> "Trade", contract |-> bbo.contract,
                           order_tx |-> bbo.transaction, amount |-> tokenAmount],
                          [type |-> "Trade", contract |-> bso.contract,
                           order_tx |-> bso.transaction, amount |-> tokenAmount] >>,
                     log |-> <<"arbDetected", "arbAttempt">>]
        ELSE [actions |-> <<>>, log |-> <<>>]

checkArbOpportunity ==
  /\ pc = "checkArbOpportunity"
  /\ LET arbs == ArbActions(obBuys, obSells, availableTokens)
     IN  /\ log' = log \o arbs.log
         /\ evaluated' = Append(evaluated, "arb")
         /\ IF Len(arbs.actions) # 0
              THEN pc' = "returned" /\ result' = arbs.actions
              ELSE pc' = "cleanupOrders" /\ result' = result
  /\ UNCHANGED <<obBuys, obSells, tokenBalance, ethBalance, config, ob>>
  /\ UNCHANGED printer

\* x.balance * x.price <= dustCutoff
IsDust(x) == x.balance * x.price <= config.dustCutoff

\* price > weightedMid + bandSize * config.spread
AboveBand(x) ==
  x.price * WmDen(obBuys, obSells) >
    WmNum(obBuys, obSells) + config.bandSize * config.spread * WmDen(obBuys, obSells)

\* price < weightedMid - bandSize * config.spread
BelowBand(x) ==
  x.price * WmDen(obBuys, obSells) <
    WmNum(obBuys, obSells) - config.bandSize * config.spread * WmDen(obBuys, obSells)

CancelRef(x) == [contract |-> x.contract, order_tx |-> x.transaction]

PruneLog(dust, outsiders) ==
  (IF Len(outsiders) # 0 THEN <<"pruneOutsiders">> ELSE <<>>)
    \o (IF Len(dust) # 0 THEN <<"pruneDust">> ELSE <<>>)

pruneSells(orders) ==
  LET dust == MapSeq(SelectSeq(orders, IsDust), CancelRef)
      outsiders == MapSeq(SelectSeq(orders, AboveBand), CancelRef)
  IN  [list |-> dust \o outsiders, log |-> PruneLog(dust, outsiders)]

pruneBuys(orders) ==
  LET dust == MapSeq(SelectSeq(orders, IsDust), CancelRef)
      outsiders == MapSeq(SelectSeq(orders, BelowBand), CancelRef)
  IN  [list |-> dust \o outsiders, log |-> PruneLog(dust, outsiders)]

ToCancelOrder(x) ==
  [type |-> "CancelOrder", contract |-> x.contract, order_tx |-> x.order_tx]

\* The cleanup checkpoint: [actions, log]
CleanupActions ==
  LET myorders == fetchOrdersFor
      ps == pruneSells(myorders.sells)
      pb == pruneBuys(myorders.buys)
  IN  [actions |-> MapSeq(ps.list \o pb.list, ToCancelOrder), log |-> ps.log \o pb.log]

\* (variant: a non-empty cleanup is not returned at once)
cleanupOrders_noReturn ==
  /\ pc = "cleanupOrders"
  /\ LET cleanup == CleanupActions
     IN  /\ log' = log \o cleanup.log
         /\ evaluated' = Append(evaluated, "cleanup")
         /\ pc' = "newOrders"
         /\ result' = cleanup.actions
  /\ UNCHANGED <<obBuys, obSells, tokenBalance, ethBalance, config, ob>>
  /\ UNCHANGED printer

cleanupOrders ==
  /\ pc = "cleanupOrders"
  /\ LET cleanup == CleanupActions
     IN  /\ log' = log \o cleanup.log
         /\ evaluated' = Append(evaluated, "cleanup")
         /\ IF Len(cleanup.actions) # 0
              THEN pc' = "returned" /\ result' = cleanup.actions
              ELSE pc' = "newOrders" /\ result' = result
  /\ UNCHANGED <<obBuys, obSells, tokenBalance, ethBalance, config, ob>>
  /\ UNCHANGED printer

\* optimalPrice of the buy leg = BuyOptNum / OptDen, of the sell leg = SellOptNum / OptDen
OptDen(buys, sells) == 2 * WmDen(buys, sells)
BuyOptNum(buys, sells) ==
  2 * WmNum(buys, sells) - spread(buys, sells) * WmDen(buys, sells)
SellOptNum(buys, sells) ==
  2 * WmNum(buys, sells) + spread(buys, sells) * WmDen(buys, sells)

\* x.toFixed(PRICEDECIMALS) of x = num / den, in units of 10^-PRICEDECIMALS
PriceToFixed(num, den) == RoundHalfUp(num * Pow(10, PRICEDECIMALS), den)

\* (variant: the comparison with the best buy price is missing)
newBuys_noGuard ==
  LET alreadyInMarket == etherLockedForAddress
      funds == availableEther
      num == BuyOptNum(obBuys, obSells)
      den == OptDen(obBuys, obSells)
  IN  IF funds <= config.dustCutoff
        THEN [actions |-> <<>>,
              log |-> IF alreadyInMarket = 0 THEN <<"notEnoughEther">> ELSE <<>>]
        ELSE [actions |->
                << [type |-> "NewOrder", order_type |-> "buy",
                    amount |-> RoundHalfUp(funds * den * Pow(10, TokenDecimals), num),
                    price |-> PriceToFixed(num, den)] >>,
              log |-> <<>>]

newBuys ==
  LET alreadyInMarket == etherLockedForAddress
      funds == availableEther
      bbp == bestBuyPrice(obBuys)
      num == BuyOptNum(obBuys, obSells)
      den == OptDen(obBuys, obSells)
  IN  IF funds <= config.dustCutoff
        THEN [actions |-> <<>>,
              log |-> IF alreadyInMarket = 0 THEN <<"notEnoughEther">> ELSE <<>>]
        ELSE IF num <= bbp * den
               THEN [actions |-> <<>>, log |-> <<>>]
               ELSE [actions |->
                       << [type |-> "NewOrder", order_type |-> "buy",
                           amount |-> RoundHalfUp(funds * den * Pow(10, TokenDecimals), num),
                           price |-> PriceToFixed(num, den)] >>,
                     log |-> <<>>]

newSells ==
  LET alreadyInMarket == tokensLockedForAddress
      funds == availableTokens - alreadyInMarket * Pow(10, TokenDecimals)
      bsp == bestSellPrice(obSells)
      num == SellOptNum(obBuys, obSells)
      den == OptDen(obBuys, obSells)
  IN  IF funds <= 0
        THEN [actions |-> <<>>,
              log |-> IF alreadyInMarket = 0 THEN <<"notEnoughTokens">> ELSE <<>>]
        ELSE IF num >= bsp * den
               THEN [actions |-> <<>>, log |-> <<>>]
               ELSE [actions |->
                       << [type |-> "NewOrder", order_type |-> "sell",
                           amount |-> funds,
                           price |-> PriceToFixed(num, den)] >>,
                     log |-> <<>>]

NewOrderActions ==
  IF spread(obBuys, obSells) <= config.spread
    THEN [actions |-> <<>>, log |-> <<>>]
    ELSE [actions |-> newBuys.actions \o newSells.actions,
          log |-> newBuys.log \o newSells.log]

newOrders ==
  /\ pc = "newOrders"
  /\ LET orders == NewOrderActions
     IN  /\ evaluated' = Append(evaluated, "new")
         /\ pc' = "returned"
         /\ IF Len(orders.actions) # 0
              THEN result' = orders.actions /\ log' = log \o orders.log
              ELSE result' = <<>> /\ log' = log \o orders.log \o <<"watching">>
  /\ UNCHANGED <<obBuys, obSells, tokenBalance, ethBalance, config, ob>>
  /\ UNCHANGED printer

Next ==
  \/ ensureValidOrderBook
  \/ printMarketHealth
  \/ checkArbOpportunity
  \/ cleanupOrders
  \/ newOrders

Spec == Init /\ [][Next]_vars

\* --------------------------------- the cycle on an exchange that moves
\* Every accessor of the strategy queries the exchange anew (orderBook(),
\* getTokenInfo()), so each step of the cycle reads the book as it is when
\* the step runs.  Between two steps another trader's transaction may take
\* an order off the book; a side keeps at least one order here, so that a
\* best order exists on both sides.
RemoveAt(orders, i) == [j \in 1..(Len(orders) - 1) |-> IF j < i THEN orders[j] ELSE orders[j + 1]]

exchangeUpdate ==
  /\ pc \in {"printMarketHealth", "checkArbOpportunity", "cleanupOrders", "newOrders"}
  /\ \/ \E i \in DOMAIN obBuys :
          Len(obBuys) > 1 /\ obBuys' = RemoveAt(obBuys, i) /\ obSells' = obSells
     \/ \E i \in DOMAIN obSells :
          Len(obSells) > 1 /\ obSells' = RemoveAt(obSells, i) /\ obBuys' = obBuys
  /\ UNCHANGED <<tokenBalance, ethBalance, config, ob, pc, result, evaluated, log>>
  /\ UNCHANGED printer

\* books that pass the health guard, and a wallet with funds on both sides
InitRace ==
  /\ Init
  /\ Len(obBuys) >= healthyCutoff
  /\ Len(obSells) >= healthyCutoff
  /\ tokenBalance > config.tokenLimit
  /\ ethBalance > config.fundMinimum + config.dustCutoff

NextRace ==
  \/ Next
  \/ exchangeUpdate

SpecRace == InitRace /\ [][NextRace]_vars

\* ------------------------------------------- the printer on its own
\* A book object of raw orders is printed, and printed again.
MaxChartOrders == 4
MaxPrints == 2
ChartPrices == {1, 2, 7}
ChartOrders == [price : ChartPrices, balance : {b * Unit : b \in Balances}]

InitChart ==
  /\ bookBuys \in UNION { [1..n -> ChartOrders] : n \in healthyCutoff..MaxChartOrders }
  /\ bookSells \in [1..healthyCutoff -> [price : ChartPrices, balance : {Unit}]]
  /\ printed = <<>>
  /\ obBuys = <<>>
  /\ obSells = <<>>
  /\ tokenBalance = 0
  /\ ethBalance = 0
  /\ config \in Configs
  /\ ob = [buys |-> <<>>, sells |-> <<>>]
  /\ pc = "idle"
  /\ result = <<>>
  /\ evaluated = <<>>
  /\ log = <<>>

Render ==
  /\ Len(printed) < MaxPrints
  /\ LET p == print(bookBuys, bookSells)
     IN  /\ bookBuys' = p.buys
         /\ bookSells' = p.sells
         /\ printed' = Append(printed, p.chart)
  /\ UNCHANGED engine

NextChart == Render

SpecChart == InitChart /\ [][NextChart]_vars
\* =================================================================
\* Properties of the getActions cycle (specification Spec)
\* =================================================================
Range(f) == {f[i] : i \in DOMAIN f}
Checkpoints == <<"arb", "cleanup", "new">>
KindOf(checkpoint) ==
  CASE checkpoint = "arb" -> "Trade"
    [] checkpoint = "cleanup" -> "CancelOrder"
    [] checkpoint = "new" -> "NewOrder"

Crossed == bestBuyPrice(obBuys) >= bestSellPrice(obSells)
\* the wallet's token balance capped at tokenLimit
CappedTokens == IF tokenBalance <= config.tokenLimit THEN tokenBalance ELSE config.tokenLimit
InTokens(amount) == amount * Pow(10, TokenDecimals)
IsMinOf(m, S) == m \in S /\ \A x \in S : m <= x

OwnOrders == {obBuys[i] : i \in {j \in DOMAIN obBuys : obBuys[j].mine}}
               \cup {obSells[i] : i \in {j \in DOMAIN obSells : obSells[j].mine}}
OwnDust(o) == o.balance * o.price <= config.dustCutoff
\* weightedMid = WmNum / WmDen; the band is bandSize * config.spread wide
OwnOutlier(o) ==
  LET n == WmNum(obBuys, obSells)
      d == WmDen(obBuys, obSells)
      band == config.bandSize * config.spread
  IN  IF o.transaction[1] = "sell"
        THEN o.price * d > n + band * d
        ELSE o.price * d < n - band * d
Prunable(o) == OwnDust(o) \/ OwnOutlier(o)
CancelsOf(o) ==
  Cardinality({i \in DOMAIN result :
                 result[i].type = "CancelOrder" /\ result[i].order_tx = o.transaction})

\* C1: the list a cycle returns holds one kind of action only; the
\* checkpoints run in the order arbitrage, cleanup, new quotes, a later one
\* only after the earlier ones came out empty, and the cycle returns the
\* first non-empty list without running the rest.
C1_OneKindFirstNonEmpty ==
  pc = "returned" =>
    /\ \E n \in 1..3 : evaluated = SubSeq(Checkpoints, 1, n)
    /\ \E kind \in {"Trade", "CancelOrder", "NewOrder"} :
         \A i \in DOMAIN result : result[i].type = kind
    /\ \A i \in DOMAIN result : result[i].type = KindOf(evaluated[Len(evaluated)])
    /\ Len(evaluated) < 3 => result # <<>>
    /\ Len(evaluated) >= 2 => ArbActions(obBuys, obSells, availableTokens).actions = <<>>
    /\ Len(evaluated) >= 3 => CleanupActions.actions = <<>>

C1_Witness ==
  /\ pc = "returned"
  /\ evaluated = <<"arb", "cleanup">>
  /\ Len(result) >= 2
  /\ \A i \in DOMAIN result : result[i].type = "CancelOrder"

\* C2: on a crossed book with tokens available the cycle returns exactly
\* two Trades, against the best buy order and against the best sell order,
\* each for min(best buy balance, best sell balance, available tokens).
C2_ArbitrageTrades ==
  (pc = "returned" /\ Crossed /\ CappedTokens > 0) =>
    LET bbo == bestBuyOrder(obBuys)
        bso == bestSellOrder(obSells)
    IN  /\ Len(result) = 2
        /\ \A i \in 1..2 :
             /\ result[i].type = "Trade"
             /\ IsMinOf(result[i].amount,
                        {InTokens(bbo.balance), InTokens(bso.balance), CappedTokens})
        /\ result[1].order_tx = bbo.transaction
        /\ result[2].order_tx = bso.transaction
        /\ bbo.price = bestBuyPrice(obBuys) /\ \A i \in DOMAIN obBuys : obBuys[i].price <= bbo.price
        /\ \A i \in DOMAIN obSells : obSells[i].price >= bso.price

C2_Witness ==
  /\ pc = "returned" /\ Crossed
  /\ tokenBalance > config.tokenLimit
  /\ Len(result) = 2
  /\ result[1].type = "Trade"
  /\ result[1].amount = config.tokenLimit
  /\ result[1].amount < InTokens(bestBuyOrder(obBuys).balance)
  /\ result[1].amount < InTokens(bestSellOrder(obSells).balance)

\* C3: when the cleanup checkpoint has run, the cycle's list holds exactly
\* one CancelOrder for each own order that is dust or outside the band, and
\* none for any other own order.
C3_OneCancelPerPrunable ==
  (pc = "returned" /\ "cleanup" \in Range(evaluated)) =>
    \A o \in OwnOrders : CancelsOf(o) = IF Prunable(o) THEN 1 ELSE 0

\* C4: a book with fewer than 2 orders on a side makes the cycle throw
\* before anything is logged, plotted, evaluated or returned; a book with
\* 2 or more orders on both sides never does.
ThinBook == Len(obBuys) < 2 \/ Len(obSells) < 2
C4_ThinBookThrowsFirst ==
  /\ ThinBook =>
       /\ pc \in {"ensureValidOrderBook", "thrown"}
       /\ log = <<>> /\ printed = <<>> /\ evaluated = <<>> /\ result = <<>>
  /\ ~ThinBook => pc # "thrown"

C4_Witness == pc = "thrown" /\ Len(obBuys) >= 2 /\ Len(obSells) = 1

\* C5 as stated: a crossed book with no tokens available makes the cycle
\* return an empty list.
C5_EmptyWhenArbMissed ==
  (pc = "returned" /\ Crossed /\ CappedTokens = 0) => result = <<>>

\* C5 as amended: a crossed book with no tokens available makes the cycle
\* log the missed arbitrage and return no Trade and no NewOrder; the cleanup
\* checkpoint still runs, and the cycle returns its CancelOrders, an empty
\* list exactly when no own order is dust or outside the band.
C5_OnlyCancelsWhenArbMissed ==
  (pc = "returned" /\ Crossed /\ CappedTokens = 0) =>
    /\ "arbLowFunds" \in Range(log) /\ "arbAttempt" \notin Range(log)
    /\ "cleanup" \in Range(evaluated)
    /\ \A i \in DOMAIN result : result[i].type = "CancelOrder"
    /\ (result = <<>>) <=> (\A o \in OwnOrders : ~Prunable(o))

C5_Witness ==
  /\ pc = "returned" /\ Crossed /\ CappedTokens = 0
  /\ result # <<>>
  /\ result[1].type = "CancelOrder"

\* emitted prices are counted in 10^-PRICEDECIMALS
InPrice(p) == p * Pow(10, PRICEDECIMALS)
NewOrdersOf(side) ==
  {i \in DOMAIN result : result[i].type = "NewOrder" /\ result[i].order_type = side}

BothLegsEligible ==
  LET n == WmNum(obBuys, obSells)
      d == WmDen(obBuys, obSells)
  IN  /\ spread(obBuys, obSells) > config.spread
      /\ \A o \in OwnOrders : ~Prunable(o)
      /\ availableEther > config.dustCutoff
      /\ CappedTokens - InTokens(tokensLockedForAddress) > 0
      /\ 2 * n - config.spread * d > 2 * d * bestBuyPrice(obBuys)
      /\ 2 * n + config.spread * d < 2 * d * bestSellPrice(obSells)

C7_BothLegsFire ==
  pc = "returned" =>
    /\ Cardinality(NewOrdersOf("buy") \cup NewOrdersOf("sell")) <= 2
    /\ BothLegsEligible =>
         Cardinality(NewOrdersOf("buy")) = 1 /\ Cardinality(NewOrdersOf("sell")) = 1
\* =================================================================
\* Properties of the chart printer (specification SpecChart)
\* =================================================================
LastPrinted == printed[Len(printed)]

\* C8: printing the same book object twice gives the same text, the same
\* plotted orders and the same truncation indicator.
C8_SameChartTwice ==
  Len(printed) = 2 =>
    /\ Output(printed[1]) = Output(printed[2])
    /\ printed[1].buys = printed[2].buys
    /\ printed[1].sells = printed[2].sells
    /\ printed[1].truncated = printed[2].truncated

\* C9: every cell plot() writes lies in rows 0..8 and columns 0..width-1,
\* so that the canvas has 9 rows of width cells each, truncated or not.
C9_WritesInsideGrid ==
  \A k \in DOMAIN printed :
    LET plot == Plot(printed[k])
        canvas == Canvas(plot)
    IN  /\ plot.rows = 8
        /\ \A i \in DOMAIN plot.writes :
             plot.writes[i].r \in 0..8 /\ plot.writes[i].c \in 0..(plot.width - 1)
        /\ Len(canvas) = 9
        /\ \A r \in DOMAIN canvas : Len(canvas[r]) = plot.width

\* C10: the filter keeps the first two orders and caps what it plots after
\* them: the notional plotted from the third order on never exceeds
\* U = 1.5 x the depth of the other side, and is exactly U when the filter
\* truncated.  (The first two orders of the array and the depth of the
\* other side are the same after printing as before.)
C10_PlottedTailWithinLimit ==
  printed # <<>> =>
    LET limit == UpperLimit(Depth(bookSells))
        tail == LastPrinted.sellDepth - etherBalance(bookBuys[1]) - etherBalance(bookBuys[2])
    IN  /\ tail <= limit
        /\ LastPrinted.truncated => tail = limit

\* the orders of array a are those of array b, each as often, in any order
SameOrders(a, b) ==
  /\ Len(a) = Len(b)
  /\ \A o \in Range(a) \cup Range(b) :
       Cardinality({i \in DOMAIN a : a[i] = o}) = Cardinality({i \in DOMAIN b : b[i] = o})

\* C11: printing a book object leaves its arrays as they were: no order of
\* the buys or the sells array is removed, and every order has the balance
\* it had before (the sells array may come back sorted by price).
C11_InputUnchanged ==
  [][ /\ Len(bookBuys') = Len(bookBuys)
      /\ \A i \in DOMAIN bookBuys : bookBuys'[i].balance = bookBuys[i].balance
      /\ SameOrders(bookSells, bookSells') ]_vars

\* =================================================================
\* Properties of the cycle on a moving exchange (specification SpecRace)
\* =================================================================
\* the chart of the book the health guard checked
GuardedChart == print(MapSeq(ob.buys, ChartOrder), MapSeq(ob.sells, ChartOrder)).chart

\* C12: once the health guard has passed, the cycle works on the book the
\* guard checked, also when the exchange's book changes between the
\* cycle's queries: the chart it plots is the chart of that book, with 2 or
\* more orders on both sides, and no step fails on a side that has become
\* shorter than 2 orders.
C12_GuardedBookThroughout ==
  /\ pc # "typeError"
  /\ \A k \in DOMAIN printed :
       /\ Len(printed[k].buys) >= healthyCutoff
       /\ Len(printed[k].sells) >= healthyCutoff
       /\ printed[k] = GuardedChart
====
